---- MODULE Spec2Model ----
(***************************************************************************)
(* Model of burrow's execution/errors package: the Code taxonomy, the      *)
(* Exception value and its constructors (NewException, AsException, Wrap,  *)
(* Errorf, ErrorCodef), Exception.Equal, and the first-error latch         *)
(* singleError (FirstOnly, PushError, Error, Reset).                       *)
(***************************************************************************)
EXTENDS Integers, Sequences, FiniteSets, TLC

VARIABLES se, log, call

vars == <<se, log, call>>

(* ----------------------------- bounds ---------------------------------- *)

\* Longest sequence of calls made on one latch.
MaxCalls == 4

\* Deepest chain of Wrap layers put around one failure.
MaxWraps == 3

\* Codes 0..MaxCode are probed one by one by Code.String (36 of them declared).
MaxCode == 40

(* ------------------------- the Code constants -------------------------- *)

ErrorCodeGeneric == 0
ErrorCodeUnknownAddress == 1
ErrorCodeInsufficientBalance == 2
ErrorCodeInvalidJumpDest == 3
ErrorCodeInsufficientGas == 4
ErrorCodeMemoryOutOfBounds == 5
ErrorCodeCodeOutOfBounds == 6
ErrorCodeInputOutOfBounds == 7
ErrorCodeReturnDataOutOfBounds == 8
ErrorCodeCallStackOverflow == 9
ErrorCodeCallStackUnderflow == 10
ErrorCodeDataStackOverflow == 11
ErrorCodeDataStackUnderflow == 12
ErrorCodeInvalidContract == 13
ErrorCodeNativeContractCodeCopy == 14
ErrorCodeExecutionAborted == 15
ErrorCodeExecutionReverted == 16
ErrorCodePermissionDenied == 17
ErrorCodeNativeFunction == 18
ErrorCodeEventPublish == 19
ErrorCodeInvalidString == 20
ErrorCodeEventMapping == 21
ErrorCodeInvalidAddress == 22
ErrorCodeDuplicateAddress == 23
ErrorCodeInsufficientFunds == 24
ErrorCodeOverpayment == 25
ErrorCodeZeroPayment == 26
ErrorCodeInvalidSequence == 27
ErrorCodeReservedAddress == 28
ErrorCodeIllegalWrite == 29
ErrorCodeIntegerOverflow == 30
ErrorCodeInvalidProposal == 31
ErrorCodeExpiredProposal == 32
ErrorCodeProposalExecuted == 33
ErrorCodeNoInputPermission == 34
ErrorCodeAlreadyVoted == 35

\* The declared kinds: the iota block runs from ErrorCodeGeneric to ErrorCodeAlreadyVoted.
DeclaredCodes == ErrorCodeGeneric..ErrorCodeAlreadyVoted

\* Some further values of the uint32 type Code, outside the declared block.
HighCodes == {255, 256, 65535, 65536, 16777216, 2147483647}

ProbeCodes == (0..MaxCode) \cup HighCodes

(* ----------------------------- Code methods --------------------------- *)

\* strconv of a non-negative integer, as fmt's %d prints it.
Digits == <<"0", "1", "2", "3", "4", "5", "6", "7", "8", "9">>

RECURSIVE Itoa(_)
Itoa(n) == IF n < 10 THEN Digits[n + 1] ELSE Itoa(n \div 10) \o Digits[(n % 10) + 1]

\* A plausible slip: the last declared kind has no case and falls to the default.
CodeStringLastCaseMissing(c) ==
    CASE c = ErrorCodeUnknownAddress -> "Unknown address"
      [] c = ErrorCodeInsufficientBalance -> "Insufficient balance"
      [] c = ErrorCodeInvalidJumpDest -> "Invalid jump dest"
      [] c = ErrorCodeInsufficientGas -> "Insufficient gas"
      [] c = ErrorCodeMemoryOutOfBounds -> "Memory out of bounds"
      [] c = ErrorCodeCodeOutOfBounds -> "Code out of bounds"
      [] c = ErrorCodeInputOutOfBounds -> "Input out of bounds"
      [] c = ErrorCodeReturnDataOutOfBounds -> "Return data out of bounds"
      [] c = ErrorCodeCallStackOverflow -> "Call stack overflow"
      [] c = ErrorCodeCallStackUnderflow -> "Call stack underflow"
      [] c = ErrorCodeDataStackOverflow -> "Data stack overflow"
      [] c = ErrorCodeDataStackUnderflow -> "Data stack underflow"
      [] c = ErrorCodeInvalidContract -> "Invalid contract"
      [] c = ErrorCodePermissionDenied -> "Permission denied"
      [] c = ErrorCodeNativeContractCodeCopy -> "Tried to copy native contract code"
      [] c = ErrorCodeExecutionAborted -> "Execution aborted"
      [] c = ErrorCodeExecutionReverted -> "Execution reverted"
      [] c = ErrorCodeNativeFunction -> "Native function error"
      [] c = ErrorCodeEventPublish -> "Event publish error"
      [] c = ErrorCodeInvalidString -> "Invalid string"
      [] c = ErrorCodeEventMapping -> "Event mapping error"
      [] c = ErrorCodeGeneric -> "Generic error"
      [] c = ErrorCodeInvalidAddress -> "Invalid address"
      [] c = ErrorCodeDuplicateAddress -> "Duplicate address"
      [] c = ErrorCodeInsufficientFunds -> "Insufficient funds"
      [] c = ErrorCodeOverpayment -> "Overpayment"
      [] c = ErrorCodeZeroPayment -> "Zero payment error"
      [] c = ErrorCodeInvalidSequence -> "Invalid sequence number"
      [] c = ErrorCodeReservedAddress -> "Address is reserved for SNative or internal use"
      [] c = ErrorCodeIllegalWrite -> "Callee attempted to illegally modify state"
      [] c = ErrorCodeIntegerOverflow -> "Integer overflow"
      [] c = ErrorCodeInvalidProposal -> "Proposal is invalid"
      [] c = ErrorCodeExpiredProposal -> "Proposal is expired since sequence number does not match"
      [] c = ErrorCodeProposalExecuted -> "Proposal has already been executed"
      [] c = ErrorCodeNoInputPermission -> "Account has no input permission"
      [] OTHER -> "Unknown error"

\* func (c Code) String() string
CodeString(c) ==
    CASE c = ErrorCodeUnknownAddress -> "Unknown address"
      [] c = ErrorCodeInsufficientBalance -> "Insufficient balance"
      [] c = ErrorCodeInvalidJumpDest -> "Invalid jump dest"
      [] c = ErrorCodeInsufficientGas -> "Insufficient gas"
      [] c = ErrorCodeMemoryOutOfBounds -> "Memory out of bounds"
      [] c = ErrorCodeCodeOutOfBounds -> "Code out of bounds"
      [] c = ErrorCodeInputOutOfBounds -> "Input out of bounds"
      [] c = ErrorCodeReturnDataOutOfBounds -> "Return data out of bounds"
      [] c = ErrorCodeCallStackOverflow -> "Call stack overflow"
      [] c = ErrorCodeCallStackUnderflow -> "Call stack underflow"
      [] c = ErrorCodeDataStackOverflow -> "Data stack overflow"
      [] c = ErrorCodeDataStackUnderflow -> "Data stack underflow"
      [] c = ErrorCodeInvalidContract -> "Invalid contract"
      [] c = ErrorCodePermissionDenied -> "Permission denied"
      [] c = ErrorCodeNativeContractCodeCopy -> "Tried to copy native contract code"
      [] c = ErrorCodeExecutionAborted -> "Execution aborted"
      [] c = ErrorCodeExecutionReverted -> "Execution reverted"
      [] c = ErrorCodeNativeFunction -> "Native function error"
      [] c = ErrorCodeEventPublish -> "Event publish error"
      [] c = ErrorCodeInvalidString -> "Invalid string"
      [] c = ErrorCodeEventMapping -> "Event mapping error"
      [] c = ErrorCodeGeneric -> "Generic error"
      [] c = ErrorCodeInvalidAddress -> "Invalid address"
      [] c = ErrorCodeDuplicateAddress -> "Duplicate address"
      [] c = ErrorCodeInsufficientFunds -> "Insufficient funds"
      [] c = ErrorCodeOverpayment -> "Overpayment"
      [] c = ErrorCodeZeroPayment -> "Zero payment error"
      [] c = ErrorCodeInvalidSequence -> "Invalid sequence number"
      [] c = ErrorCodeReservedAddress -> "Address is reserved for SNative or internal use"
      [] c = ErrorCodeIllegalWrite -> "Callee attempted to illegally modify state"
      [] c = ErrorCodeIntegerOverflow -> "Integer overflow"
      [] c = ErrorCodeInvalidProposal -> "Proposal is invalid"
      [] c = ErrorCodeExpiredProposal -> "Proposal is expired since sequence number does not match"
      [] c = ErrorCodeProposalExecuted -> "Proposal has already been executed"
      [] c = ErrorCodeNoInputPermission -> "Account has no input permission"
      [] c = ErrorCodeAlreadyVoted -> "Vote already registered for this address"
      [] OTHER -> "Unknown error"

\* func (c Code) Error() string: fmt.Sprintf("Error %d: %s", c, c.String())
CodeError(c) == "Error " \o Itoa(c) \o ": " \o CodeString(c)

\* func (c Code) ErrorCode() Code
CodeErrorCode(c) == c

(* --------------------------- *Exception values ------------------------- *)

\* A *Exception is the nil pointer or points at a struct {Code, Exception}.
NilPtr == <<>>

Ptr(c, m) == <<[Code |-> c, Exception |-> m]>>

(* --------------------- values of the interface error ------------------- *)

\* The untyped nil interface.
NilErr == [tag |-> "nil", ptr |-> NilPtr, code |-> 0, msg |-> ""]

\* An interface holding a *Exception (a nil pointer in it is a typed nil).
ExcErr(p) == [tag |-> "exc", ptr |-> p, code |-> 0, msg |-> ""]

\* An interface holding a Code value; Code implements CodedError.
CodeErr(c) == [tag |-> "code", ptr |-> NilPtr, code |-> c, msg |-> ""]

\* Some other implementation of CodedError, with its own ErrorCode() and Error().
CodedErr(c, m) == [tag |-> "coded", ptr |-> NilPtr, code |-> c, msg |-> m]

\* A plain error, with Error() only.
PlainErr(m) == [tag |-> "plain", ptr |-> NilPtr, code |-> 0, msg |-> m]

\* func (e *Exception) Error() string
ExceptionError(e) == IF e = NilPtr THEN "" ELSE e[1].Exception

\* func (e *Exception) ErrorCode() Code dereferences e: a nil receiver panics.
ExceptionErrorCodePanics(e) == e = NilPtr

ExceptionErrorCode(e) == e[1].Code

\* err.Error(), dispatched on the dynamic type.
ErrError(err) ==
    CASE err.tag = "exc" -> ExceptionError(err.ptr)
      [] err.tag = "code" -> CodeError(err.code)
      [] OTHER -> err.msg

\* e.ErrorCode() of a CodedError that is no *Exception.
ErrErrorCode(err) ==
    IF err.tag = "code" THEN CodeErrorCode(err.code) ELSE err.code

(* ----------------------------- constructors --------------------------- *)

\* A plausible slip: the empty message is not smoothed to nil.
NewExceptionKeepsEmpty(errorCode, exception) == Ptr(errorCode, exception)

\* func NewException(errorCode Code, exception string) *Exception
NewException(errorCode, exception) ==
    IF exception = "" THEN NilPtr ELSE Ptr(errorCode, exception)

\* A plausible slip: every non-Exception error is given the generic code.
AsExceptionDropsCode(err) ==
    IF err = NilErr THEN NilPtr
    ELSE IF err.tag = "exc" THEN err.ptr
    ELSE NewException(ErrorCodeGeneric, ErrError(err))

\* func AsException(err error) *Exception
AsException(err) ==
    IF err = NilErr THEN NilPtr
    ELSE CASE err.tag = "exc" -> err.ptr
           [] err.tag \in {"code", "coded"} -> NewException(ErrErrorCode(err), ErrError(err))
           [] OTHER -> NewException(ErrorCodeGeneric, ErrError(err))

\* The outcome of a call that may panic.
Return(p) == [panic |-> FALSE, val |-> p]

Panic == [panic |-> TRUE, val |-> NilPtr]

\* A plausible slip: the wrapped failure is rebuilt with the generic code.
WrapDropsCode(err, message) ==
    LET ex == AsException(err)
    IN  IF ExceptionErrorCodePanics(ex) THEN Panic
        ELSE Return(NewException(ErrorCodeGeneric, message \o ": " \o ExceptionError(ex)))

\* func Wrap(err error, message string) *Exception
Wrap(err, message) ==
    LET ex == AsException(err)
    IN  IF ExceptionErrorCodePanics(ex) THEN Panic
        ELSE Return(NewException(ExceptionErrorCode(ex), message \o ": " \o ExceptionError(ex)))

\* A plausible slip: two failures of the same kind compare equal whatever they say.
EqualCodeOnly(e, ce) ==
    LET ex == AsException(ce)
    IN  IF e = NilPtr \/ ex = NilPtr THEN e = NilPtr /\ ex = NilPtr
        ELSE e[1].Code = ex[1].Code

\* func (e *Exception) Equal(ce CodedError) bool
Equal(e, ce) ==
    LET ex == AsException(ce)
    IN  IF e = NilPtr \/ ex = NilPtr THEN e = NilPtr /\ ex = NilPtr
        ELSE e[1].Code = ex[1].Code /\ e[1].Exception = ex[1].Exception

\* func (e *Exception) AsError() error
AsError(e) == IF e = NilPtr THEN NilErr ELSE ExcErr(e)

(* ------------------------------ fmt.Sprintf ---------------------------- *)

\* A format is a sequence of pieces: literal text, or one of the verbs %s, %d, %%.
Lit(t) == [verb |-> "", text |-> t]

Verb(v) == [verb |-> v, text |-> ""]

\* An operand is a string or a non-negative int.
StrArg(x) == [type |-> "string", s |-> x, i |-> 0]

IntArg(n) == [type |-> "int", s |-> "", i |-> n]

ArgText(x) == IF x.type = "string" THEN x.s ELSE Itoa(x.i)

\* One operand under one verb; a verb that does not fit the operand's type prints %!verb(type=value).
PrintArg(v, x) ==
    IF (v = "s" /\ x.type = "string") \/ (v = "d" /\ x.type = "int")
    THEN ArgText(x)
    ELSE "%!" \o v \o "(" \o x.type \o "=" \o ArgText(x) \o ")"

RECURSIVE ExtraList(_)
ExtraList(a) ==
    IF Len(a) = 1 THEN a[1].type \o "=" \o ArgText(a[1])
    ELSE a[1].type \o "=" \o ArgText(a[1]) \o ", " \o ExtraList(Tail(a))

\* fmt.Sprintf(format, a...): verbs consume operands in order, a verb without an
\* operand prints %!verb(MISSING), operands left over print %!(EXTRA type=value, ...).
RECURSIVE Sprintf(_, _)
Sprintf(format, a) ==
    IF format = <<>>
    THEN IF a = <<>> THEN "" ELSE "%!(EXTRA " \o ExtraList(a) \o ")"
    ELSE LET p == Head(format)
         IN  CASE p.verb = "" -> p.text \o Sprintf(Tail(format), a)
               [] p.verb = "%" -> "%" \o Sprintf(Tail(format), a)
               [] OTHER ->
                    IF a = <<>>
                    THEN "%!" \o p.verb \o "(MISSING)" \o Sprintf(Tail(format), a)
                    ELSE PrintArg(p.verb, Head(a)) \o Sprintf(Tail(format), Tail(a))

\* func ErrorCodef(errorCode Code, format string, a ...interface{}) *Exception
ErrorCodef(errorCode, format, a) == NewException(errorCode, Sprintf(format, a))

\* func Errorf(format string, a ...interface{}) *Exception
Errorf(format, a) == ErrorCodef(ErrorCodeGeneric, format, a)

(* ------------------------- the first-error latch ----------------------- *)

\* func FirstOnly() *singleError: the embedded CodedError is the nil interface.
FirstOnly == NilErr

\* A plausible slip: the latch keeps the last failure pushed instead of the first.
PushErrorOverwrites(s, err) ==
    LET ex == AsException(err)
    IN  IF ex # NilPtr THEN ExcErr(ex) ELSE s

\* func (se *singleError) PushError(err error): the embedded CodedError afterwards.
PushError(s, err) ==
    IF s = NilErr
    THEN LET ex == AsException(err)
         IN  IF ex # NilPtr THEN ExcErr(ex) ELSE s
    ELSE s

\* A plausible slip: reading the latch also clears it.
ErrorClears(s) == [ret |-> s, se |-> NilErr]

\* func (se *singleError) Error() CodedError: what it returns, and the embedded
\* CodedError afterwards.
Error(s) == [ret |-> s, se |-> s]

\* A plausible slip: Reset keeps a held failure.
ResetKeeps(s) == s

\* func (se *singleError) Reset(): the embedded CodedError afterwards.
Reset(s) == NilErr

(* ------------------------------ inputs --------------------------------- *)

\* The failure-like values pushed into the latch.
PushValues ==
    { NilErr,
      ExcErr(NilPtr),
      ExcErr(Ptr(ErrorCodeInsufficientGas, "gas exhausted")),
      ExcErr(Ptr(ErrorCodeCallStackOverflow, "stack overflow")),
      ExcErr(Ptr(ErrorCodeExecutionReverted, "")),
      CodeErr(ErrorCodeExecutionAborted),
      CodedErr(ErrorCodePermissionDenied, "denied"),
      CodedErr(ErrorCodePermissionDenied, ""),
      PlainErr("boom"),
      PlainErr("") }

(* ------------------------- the latch's operations ---------------------- *)

\* One call on the latch: its name, its argument, what it returned, and the
\* embedded CodedError once it has returned.
Entry(n, a, r, s) == [name |-> n, arg |-> a, out |-> r, after |-> s]

DoPushError(err) ==
    /\ Len(log) < MaxCalls
    /\ se' = PushError(se, err)
    /\ log' = Append(log, Entry("PushError", err, NilErr, se'))
    /\ UNCHANGED call

DoError ==
    /\ Len(log) < MaxCalls
    /\ se' = Error(se).se
    /\ log' = Append(log, Entry("Error", NilErr, Error(se).ret, se'))
    /\ UNCHANGED call

DoReset ==
    /\ Len(log) < MaxCalls
    /\ se' = Reset(se)
    /\ log' = Append(log, Entry("Reset", NilErr, NilErr, se'))
    /\ UNCHANGED call

NoCall == [fn |-> "none"]

Init ==
    /\ se = FirstOnly
    /\ log = <<>>
    /\ call = NoCall

Next ==
    \/ \E err \in PushValues : DoPushError(err)
    \/ DoError
    \/ DoReset

Spec == Init /\ [][Next]_vars

(* ------------------- calls of the package's functions ------------------ *)

\* Values of Code handed to the constructors: declared kinds and one past the last.
KindValues ==
    { ErrorCodeGeneric, ErrorCodeInsufficientGas, ErrorCodeCallStackOverflow,
      ErrorCodeAlreadyVoted, ErrorCodeAlreadyVoted + 1 }

Messages == {"", " ", "gas exhausted", "stack overflow"}

Prefixes == {"", "ctx", "call failed"}

\* Every *Exception: nil, built by NewException, or built directly (also with "").
ExceptionPtrs == {NilPtr} \cup {Ptr(c, m) : c \in KindValues, m \in Messages}

\* The values of CodedError.
CodedValues ==
    {NilErr}
      \cup {ExcErr(p) : p \in ExceptionPtrs}
      \cup {CodeErr(c) : c \in KindValues}
      \cup {CodedErr(c, m) : c \in KindValues, m \in Messages}

\* The values of error.
ErrValues == CodedValues \cup {PlainErr(m) : m \in Messages}

Formats ==
    { <<>>,
      <<Lit("out of gas")>>,
      <<Verb("s")>>,
      <<Lit("at "), Verb("d")>>,
      <<Verb("s"), Verb("%")>> }

ArgLists ==
    { <<>>, <<StrArg("")>>, <<StrArg("pc")>>, <<IntArg(7)>>, <<StrArg(""), IntArg(12)>> }

CallNewException(c, m) ==
    /\ call' = [fn |-> "NewException", errorCode |-> c, exception |-> m,
                out |-> NewException(c, m)]
    /\ UNCHANGED <<se, log>>

CallAsException(err) ==
    /\ call' = [fn |-> "AsException", err |-> err, out |-> AsException(err)]
    /\ UNCHANGED <<se, log>>

\* Wrap(err, message), the first layer around err.
CallWrap(err, message) ==
    /\ call' = [fn |-> "Wrap", err |-> err, message |-> message,
                out |-> Wrap(err, message), orig |-> err, prefixes |-> <<message>>]
    /\ UNCHANGED <<se, log>>

\* Wrap(w, message) where w is what the previous Wrap returned.
CallWrapAgain(message) ==
    /\ call.fn = "Wrap"
    /\ ~call.out.panic
    /\ Len(call.prefixes) < MaxWraps
    /\ call' = [fn |-> "Wrap", err |-> ExcErr(call.out.val), message |-> message,
                out |-> Wrap(ExcErr(call.out.val), message), orig |-> call.orig,
                prefixes |-> Append(call.prefixes, message)]
    /\ UNCHANGED <<se, log>>

CallEqual(e, ce) ==
    /\ call' = [fn |-> "Equal", e |-> e, ce |-> ce, out |-> Equal(e, ce)]
    /\ UNCHANGED <<se, log>>

CallErrorCodef(c, format, a) ==
    /\ call' = [fn |-> "ErrorCodef", errorCode |-> c, format |-> format, a |-> a,
                out |-> ErrorCodef(c, format, a)]
    /\ UNCHANGED <<se, log>>

CallErrorf(format, a) ==
    /\ call' = [fn |-> "Errorf", format |-> format, a |-> a, out |-> Errorf(format, a)]
    /\ UNCHANGED <<se, log>>

CallString(c) ==
    /\ call' = [fn |-> "String", c |-> c, out |-> CodeString(c)]
    /\ UNCHANGED <<se, log>>

NextFn ==
    \/ \E c \in KindValues, m \in Messages : CallNewException(c, m)
    \/ \E err \in ErrValues : CallAsException(err)
    \/ \E err \in ErrValues, m \in Prefixes : CallWrap(err, m)
    \/ \E m \in Prefixes : CallWrapAgain(m)
    \/ \E e \in ExceptionPtrs, ce \in CodedValues : CallEqual(e, ce)
    \/ \E c \in KindValues, f \in Formats, a \in ArgLists : CallErrorCodef(c, f, a)
    \/ \E f \in Formats, a \in ArgLists : CallErrorf(f, a)
    \/ \E c \in ProbeCodes : CallString(c)

SpecFn == Init /\ [][NextFn]_vars

(* ====================== properties of the latch ======================== *)

\* What Error() returns in the current state.
Held == Error(se).ret

\* The embedded CodedError before call i of the log.
Before(i) == IF i = 1 THEN FirstOnly ELSE log[i - 1].after

\* The index of the latest Reset among the first n calls of l, 0 if there is none.
LastReset(l, n) ==
    IF \E i \in 1..n : l[i].name = "Reset"
    THEN CHOOSE i \in 1..n : l[i].name = "Reset" /\ \A j \in (i + 1)..n : l[j].name # "Reset"
    ELSE 0

\* The pushes among the first n calls of l, since the latest Reset, whose value
\* coerces to a present failure.
PresentPushes(l, n) ==
    { i \in (LastReset(l, n) + 1)..n :
        l[i].name = "PushError" /\ AsException(l[i].arg) # NilPtr }

\* What the latch has to hold after the first n calls of l: the coercion of the
\* first present push since creation or the latest Reset, nil if there is none.
FirstPushed(l, n) ==
    IF PresentPushes(l, n) = {} THEN NilErr
    ELSE LET i == CHOOSE k \in PresentPushes(l, n) : \A j \in PresentPushes(l, n) : k <= j
         IN  ExcErr(AsException(l[i].arg))

\* C1: Error() returns the coercion of the first pushed value, since creation or
\* the latest Reset, whose coercion is present, and nil if there is none; every
\* Error() call made on the way returned just that; and a PushError on a latched
\* latch leaves the held failure as it was.
C1_FirstErrorLatch ==
    /\ Held = FirstPushed(log, Len(log))
    /\ \A i \in 1..Len(log) :
         /\ log[i].name = "Error" => log[i].out = FirstPushed(log, i - 1)
         /\ (log[i].name = "PushError" /\ Before(i) # NilErr) => log[i].after = Before(i)

\* C1's case: a failure was latched, then a different present failure was pushed.
C1_Witness ==
    /\ Len(log) >= 3
    /\ log[1].name = "PushError" /\ log[1].arg = NilErr
    /\ log[2].name = "PushError"
    /\ log[2].arg = ExcErr(Ptr(ErrorCodeInsufficientGas, "gas exhausted"))
    /\ log[3].name = "PushError"
    /\ log[3].arg = ExcErr(Ptr(ErrorCodeCallStackOverflow, "stack overflow"))
    /\ Held = ExcErr(Ptr(ErrorCodeInsufficientGas, "gas exhausted"))

\* C2: every Reset leaves the latch empty whatever it held; an Error() right after
\* it returns nil, and a PushError right after it of a value that coerces to a
\* present failure latches that value.
C2_ResetEmpties ==
    \A i \in 1..Len(log) :
      log[i].name = "Reset" =>
        /\ log[i].after = NilErr
        /\ i = Len(log) => Held = NilErr
        /\ i < Len(log) =>
             /\ log[i + 1].name = "Error" => log[i + 1].out = NilErr
             /\ (log[i + 1].name = "PushError" /\ AsException(log[i + 1].arg) # NilPtr)
                  => log[i + 1].after = ExcErr(AsException(log[i + 1].arg))

\* C2's case: a latched latch is reset and then latches another failure.
C2_Witness ==
    /\ Len(log) >= 3
    /\ \E i \in 2..(Len(log) - 1) :
         /\ Before(i) = ExcErr(Ptr(ErrorCodeInsufficientGas, "gas exhausted"))
         /\ log[i].name = "Reset"
         /\ log[i + 1].name = "PushError"
         /\ log[i + 1].arg = PlainErr("boom")
         /\ log[i + 1].after = ExcErr(Ptr(ErrorCodeGeneric, "boom"))

\* C3: the failure Error() returns is nil or has a non-empty message.
C3_NeverEmptyButPresent ==
    Held = NilErr \/ ErrError(Held) # ""

\* The latch with every call on it that is no Error() call replayed from l.
RECURSIVE ReplayWrites(_, _)
ReplayWrites(l, s) ==
    IF l = <<>> THEN s
    ELSE CASE Head(l).name = "PushError" -> ReplayWrites(Tail(l), PushError(s, Head(l).arg))
           [] Head(l).name = "Reset" -> ReplayWrites(Tail(l), Reset(s))
           [] OTHER -> ReplayWrites(Tail(l), s)

\* C10: an Error() call leaves the latch as it found it and returns what the latch
\* held (nil when empty); the latch is in the state, and every Error() call
\* returned the value, that the PushError and Reset calls alone lead to.
C10_ErrorReadsOnly ==
    /\ se = ReplayWrites(log, FirstOnly)
    /\ \A i \in 1..Len(log) :
         log[i].name = "Error" =>
           /\ log[i].after = Before(i)
           /\ log[i].out = Before(i)
           /\ log[i].out = ReplayWrites(SubSeq(log, 1, i - 1), FirstOnly)

\* C10's case: Error() is called on the empty and on the latched latch, twice in a row.
C10_Witness ==
    /\ Len(log) >= 4
    /\ log[1].name = "Error" /\ log[1].out = NilErr
    /\ log[2].name = "PushError"
    /\ log[3].name = "Error" /\ log[3].out # NilErr
    /\ log[4].name = "Error" /\ log[4].out = log[3].out
    /\ se = log[3].out

(* =================== properties of the functions ======================= *)

\* A failure-like value that is absent: the untyped nil or a typed-nil *Exception.
Absent(err) == err = NilErr \/ err = ExcErr(NilPtr)

\* Whether a failure-like value exposes a kind (is a CodedError).
ExposesKind(err) == err.tag \in {"exc", "code", "coded"}

\* The kind a present failure-like value exposes.
KindOf(err) == IF err.tag = "exc" THEN ExceptionErrorCode(err.ptr) ELSE ErrErrorCode(err)

\* C4: Wrap of a value that coerces to absent returns (nil or a failure) and does
\* not panic, whatever the prefix.
C4_WrapAbsentNoCrash ==
    (call.fn = "Wrap" /\ AsException(call.err) = NilPtr) => ~call.out.panic

\* The message n Wrap layers with the prefixes ps give to a failure saying m.
RECURSIVE Layered(_, _)
Layered(ps, m) ==
    IF ps = <<>> THEN m
    ELSE ps[Len(ps)] \o ": " \o Layered(SubSeq(ps, 1, Len(ps) - 1), m)

\* C5: around a present failure, each Wrap returns a present failure whose message
\* is the prefix, ": " and the message of what it wrapped, and after any number of
\* layers the kind is still the kind of the innermost failure.
C5_WrapKeepsKind ==
    (call.fn = "Wrap" /\ AsException(call.orig) # NilPtr) =>
        /\ ~call.out.panic
        /\ call.out.val # NilPtr
        /\ ExceptionErrorCode(call.out.val) = KindOf(call.orig)
        /\ ExceptionError(call.out.val) = call.message \o ": " \o ErrError(call.err)
        /\ ExceptionError(call.out.val) = Layered(call.prefixes, ErrError(call.orig))

\* C5's case: three layers, one with the empty prefix, around a coded failure.
C5_Witness ==
    /\ call.fn = "Wrap"
    /\ call.orig = ExcErr(Ptr(ErrorCodeCallStackOverflow, "stack overflow"))
    /\ call.prefixes = <<"ctx", "", "call failed">>
    /\ call.out = Return(Ptr(ErrorCodeCallStackOverflow, "call failed: : ctx: stack overflow"))

\* C6 as stated: every failure-like value that is not absent coerces to a present
\* failure with the value's text and kind (generic if it exposes none); nil coerces
\* to nil.
C6_AsExceptionPresent ==
    call.fn = "AsException" =>
        /\ call.err = NilErr => call.out = NilPtr
        /\ ~Absent(call.err) =>
             /\ call.out # NilPtr
             /\ ExceptionError(call.out) = ErrError(call.err)
             /\ ExceptionErrorCode(call.out) =
                  IF ExposesKind(call.err) THEN KindOf(call.err) ELSE ErrorCodeGeneric

\* A value AsException turns into a present failure: a non-nil *Exception, or any
\* other non-nil error whose text is not empty.
Coercible(err) ==
    /\ ~Absent(err)
    /\ err.tag = "exc" \/ ErrError(err) # ""

\* C6 as amended: a non-nil *Exception, and every other non-nil error with a
\* non-empty text, coerces to a present failure with the value's text and kind
\* (generic if it exposes none); a non-nil error that is no *Exception and has the
\* empty text coerces to nil, as do nil and the typed-nil *Exception.
C6_AsExceptionAmended ==
    call.fn = "AsException" =>
        /\ Coercible(call.err) =>
             /\ call.out # NilPtr
             /\ ExceptionError(call.out) = ErrError(call.err)
             /\ ExceptionErrorCode(call.out) =
                  IF ExposesKind(call.err) THEN KindOf(call.err) ELSE ErrorCodeGeneric
        /\ ~Coercible(call.err) => call.out = NilPtr

\* C6's case: a CodedError that is no *Exception keeps its kind and text.
C6_Witness ==
    /\ call.fn = "AsException"
    /\ call.err = CodedErr(ErrorCodeInsufficientGas, "gas exhausted")
    /\ call.out = Ptr(ErrorCodeInsufficientGas, "gas exhausted")

\* Whether the CodedError handed to Equal is a *Exception or nil.
IsExceptionOrNil(ce) == ce.tag \in {"nil", "exc"}

\* C7: on *Exception values and nil, e.Equal(ce) is true iff both are absent or
\* both are present with the same kind and message; e.Equal(e) is true; and
\* e.Equal(ce) is what ce.Equal(e) is.
C7_EqualIsEquivalence ==
    (call.fn = "Equal" /\ IsExceptionOrNil(call.ce)) =>
        /\ call.out =
             \/ call.e = NilPtr /\ Absent(call.ce)
             \/ /\ call.e # NilPtr
                /\ ~Absent(call.ce)
                /\ ExceptionErrorCode(call.e) = ExceptionErrorCode(call.ce.ptr)
                /\ ExceptionError(call.e) = ExceptionError(call.ce.ptr)
        /\ Equal(call.e, ExcErr(call.e))
        /\ Equal(call.e, AsError(call.e))
        /\ call.out = Equal(call.ce.ptr, ExcErr(call.e))
        /\ call.out = Equal(call.ce.ptr, AsError(call.e))

\* C7's case: two present failures of one kind that say different things.
C7_Witness ==
    /\ call.fn = "Equal"
    /\ call.e = Ptr(ErrorCodeInsufficientGas, "gas exhausted")
    /\ call.ce = ExcErr(Ptr(ErrorCodeInsufficientGas, "stack overflow"))
    /\ call.out = FALSE

\* C8: NewException returns nil for the empty message whatever the kind, and for
\* any other message a failure with just that kind and message; ErrorCodef does so
\* with the formatted message, Errorf with the formatted message and the generic kind.
C8_NewExceptionRule ==
    /\ call.fn = "NewException" =>
         /\ call.exception = "" => call.out = NilPtr
         /\ call.exception # "" =>
              /\ call.out # NilPtr
              /\ ExceptionErrorCode(call.out) = call.errorCode
              /\ ExceptionError(call.out) = call.exception
    /\ call.fn = "ErrorCodef" =>
         /\ Sprintf(call.format, call.a) = "" => call.out = NilPtr
         /\ Sprintf(call.format, call.a) # "" =>
              call.out = Ptr(call.errorCode, Sprintf(call.format, call.a))
    /\ call.fn = "Errorf" =>
         /\ Sprintf(call.format, call.a) = "" => call.out = NilPtr
         /\ Sprintf(call.format, call.a) # "" =>
              call.out = Ptr(ErrorCodeGeneric, Sprintf(call.format, call.a))

\* C8's case: a message of one blank is kept as it is.
C8_Witness ==
    /\ call.fn = "NewException"
    /\ call.exception = " "
    /\ call.out = Ptr(call.errorCode, " ")

\* C9: Code.String gives every declared kind a non-empty description that no other
\* declared kind has and that is not "Unknown error", and gives every other value
\* of Code "Unknown error".
C9_StringTotal ==
    call.fn = "String" =>
        /\ call.c \in DeclaredCodes =>
             /\ call.out # ""
             /\ call.out # "Unknown error"
             /\ \A d \in DeclaredCodes \ {call.c} : CodeString(d) # call.out
        /\ call.c \notin DeclaredCodes => call.out = "Unknown error"

\* C9's case: the last declared kind is described.
C9_Witness ==
    /\ call.fn = "String"
    /\ call.c = ErrorCodeAlreadyVoted
    /\ call.out = "Vote already registered for this address"

====
